---- MODULE Spec2Model ----
(***************************************************************************)
(* Lane-changing environments of cistar (envs/lane_changing.py):           *)
(*   SimpleLaneChangingAccelerationEnvironment, LaneChangeOnlyEnvironment  *)
(*   and RLOnlyLane.                                                       *)
(*                                                                         *)
(* Numbers.  Action values (accelerations, directions) are kept in half    *)
(* units: the integer x stands for the real x/2, so the action space       *)
(* [-1, 1] is -2..2 and the lane-change commands -1, 0, 1 are -2, 0, 2.    *)
(* Speeds, lanes, positions and ticks are integers.  A reward is the       *)
(* record [c, a, b] standing for the real  c + sqrt(a) - sqrt(b).          *)
(***************************************************************************)
EXTENDS Integers, Sequences, FiniteSets, TLC

VARIABLES
    variant,               \* the environment class that was constructed
    rl_ids,                \* self.rl_ids: the controllable vehicles
    sorted_ids,            \* self.sorted_ids: canonical ordering of self.ids
    lane_change_duration,  \* self.lane_change_duration
    target_velocity,       \* env_params additional param "target_velocity"
    timer,                 \* self.timer
    vehicles,              \* self.vehicles: id -> [speed, lane, absolute_position, last_lc]
    fail,                  \* kwargs["fail"] of the current step
    pc,                    \* position of the step loop
    actions_in,            \* the caller's action vector before apply_rl_actions
    actions,               \* the caller's action vector after apply_rl_actions
    acc_call,              \* the apply_acceleration call made in this step
    lc_call,               \* the apply_lane_change call made in this step
    raised,                \* exception raised in this step, or "none"
    state_in,              \* the observation returned by get_state
    state,                 \* the same array after compute_reward
    reward                 \* value returned by compute_reward

vars == <<variant, rl_ids, sorted_ids, lane_change_duration, target_velocity,
          timer, vehicles, fail, pc, actions_in, actions, acc_call, lc_call,
          raised, state_in, state, reward>>

(***************************************************************************)
(* Bounds                                                                  *)
(***************************************************************************)
NumVehicles == 2
MaxTick == 4
MaxLen == 4
MaxDuration == 2

ids == [i \in 1..NumVehicles |-> i]

\* action values drawn by the policy, in half units: -1, -0.5, 0, 0.5, 1
ActVals == -2..2

\* speeds the simulator reports, target velocities and positions
SpeedVals == {-1, 1, 2}
TargetVelocities == {1, 2}
PosVals == {0, 1, 3}
LaneVals == 0..1

\* accelerations produced by the longitudinal controllers, in half units
CtrlAccVals == {-1, 2}

Range(s) == {s[i] : i \in 1..Len(s)}

\* all sequences over S of length 0..n
RECURSIVE SeqsUpTo(_, _)
SeqsUpTo(S, n) ==
    IF n = 0 THEN {<<>>}
    ELSE LET shorter == SeqsUpTo(S, n - 1)
         IN  shorter \cup {Append(s, x) : s \in {t \in shorter : Len(t) = n - 1}, x \in S}

\* the sequences that list each element of 1..n once
Perms(n) == {p \in [1..n -> 1..n] : \A i, j \in 1..n : p[i] = p[j] => i = j}

\* the increasing sequences over 1..n: a fleet's controllable vehicles
RECURSIVE SubSeqs(_)
SubSeqs(n) ==
    IF n = 0 THEN {<<>>}
    ELSE SubSeqs(n - 1) \cup {Append(s, n) : s \in SubSeqs(n - 1)}

\* last_lc of a vehicle that has never changed lanes: always eligible
NEVER == 0 - (MaxDuration + 1)

NoCall == [called |-> FALSE, ids |-> <<>>, vals |-> <<>>]
NoReward == [c |-> 0, a |-> 0, b |-> 0]

(***************************************************************************)
(* numpy helpers                                                           *)
(***************************************************************************)
\* np.round on a half-unit value: round half to even
NpRound(x) ==
    IF x % 2 = 0 THEN x
    ELSE LET k == (x - 1) \div 2
         IN  IF k % 2 = 0 THEN 2 * k ELSE 2 * (k + 1)

\* a[::2]
EvenSlice(a) == [i \in 1..((Len(a) + 1) \div 2) |-> a[2 * i - 1]]

\* a[1::2]
OddSlice(a) == [i \in 1..(Len(a) \div 2) |-> a[2 * i]]

\* arr[mask] = np.array([0] * sum(mask)) with mask a non-empty sequence of
\* booleans: a mask of another length than arr is an IndexError; otherwise
\* the entries under True become 0.
MaskAssignOk(arr, mask) == Len(mask) = Len(arr)

MaskAssignZero(arr, mask) == [i \in 1..Len(arr) |-> IF mask[i] THEN 0 ELSE arr[i]]

(***************************************************************************)
(* SimpleLaneChangingAccelerationEnvironment.apply_rl_actions              *)
(***************************************************************************)
\* [veh_id for veh_id in self.sorted_ids if veh_id in self.rl_ids]
sorted_rl_ids == SelectSeq(sorted_ids, LAMBDA veh_id : veh_id \in Range(rl_ids))

\* the filter without the duration: self.timer <= last_lc
Simple_non_lane_changing_no_duration(veh_id) ==
    timer <= vehicles[veh_id].last_lc

\* self.timer <= self.lane_change_duration + last_lc
Simple_non_lane_changing(veh_id) ==
    timer <= lane_change_duration + vehicles[veh_id].last_lc

Simple_non_lane_changing_veh ==
    [i \in 1..Len(sorted_rl_ids) |-> Simple_non_lane_changing(sorted_rl_ids[i])]

Simple_direction(acts) == [i \in 1..Len(OddSlice(acts)) |-> NpRound(OddSlice(acts)[i])]

Simple_apply_rl_actions(acts) ==
    LET acceleration == EvenSlice(acts)
        direction == Simple_direction(acts)
        mask == Simple_non_lane_changing_veh
    IN  /\ actions_in' = acts
        /\ actions' = acts
        /\ IF MaskAssignOk(direction, mask)
           THEN /\ acc_call' = [called |-> TRUE, ids |-> sorted_rl_ids, vals |-> acceleration]
                /\ lc_call' = [called |-> TRUE, ids |-> sorted_rl_ids,
                               vals |-> MaskAssignZero(direction, mask)]
                /\ raised' = "none"
           ELSE /\ acc_call' = NoCall
                /\ lc_call' = NoCall
                /\ raised' = "IndexError"

(***************************************************************************)
(* LaneChangeOnlyEnvironment.apply_rl_actions                              *)
(***************************************************************************)
\* self.timer <= self.lane_change_duration + self.vehicles[veh_id]['last_lc']
LaneChangeOnly_non_lane_changing(veh_id) ==
    timer <= lane_change_duration + vehicles[veh_id].last_lc

LaneChangeOnly_non_lane_changing_veh ==
    [i \in 1..Len(sorted_rl_ids) |-> LaneChangeOnly_non_lane_changing(sorted_rl_ids[i])]

\* direction = actions is the caller's array itself: the masked assignment
\* writes through to it.  The accelerations come from the rl_controller of
\* each vehicle (acc), after the lane changes were dispatched.
LaneChangeOnly_apply_rl_actions(acts, acc) ==
    LET mask == LaneChangeOnly_non_lane_changing_veh
    IN  /\ actions_in' = acts
        /\ IF MaskAssignOk(acts, mask)
           THEN /\ actions' = MaskAssignZero(acts, mask)
                /\ lc_call' = [called |-> TRUE, ids |-> sorted_rl_ids,
                               vals |-> MaskAssignZero(acts, mask)]
                /\ acc_call' = [called |-> TRUE, ids |-> sorted_rl_ids, vals |-> acc]
                /\ raised' = "none"
           ELSE /\ actions' = acts
                /\ acc_call' = NoCall
                /\ lc_call' = NoCall
                /\ raised' = "IndexError"

(***************************************************************************)
(* The step loop around apply_rl_actions                                   *)
(***************************************************************************)
Vehicle0 == [speed |-> 0, lane |-> 0, absolute_position |-> 0, last_lc |-> NEVER]

\* An environment of either class with at least one controllable vehicle,
\* before the first step.
InitControl ==
    /\ variant \in {"SimpleLaneChangingAccelerationEnvironment", "LaneChangeOnlyEnvironment"}
    /\ rl_ids \in SubSeqs(NumVehicles) \ {<<>>}
    /\ sorted_ids \in Perms(NumVehicles)
    /\ lane_change_duration \in 1..MaxDuration
    /\ target_velocity = 1
    /\ timer = 0
    /\ vehicles = [v \in 1..NumVehicles |-> Vehicle0]
    /\ fail = FALSE
    /\ pc = "idle"
    /\ actions_in = <<>>
    /\ actions = <<>>
    /\ acc_call = NoCall
    /\ lc_call = NoCall
    /\ raised = "none"
    /\ state_in = <<>>
    /\ state = <<>>
    /\ reward = NoReward

\* step() advances the tick before the actions are applied
BeginStep ==
    /\ pc = "idle"
    /\ timer < MaxTick
    /\ timer' = timer + 1
    /\ pc' = "apply"
    /\ UNCHANGED <<variant, rl_ids, sorted_ids, lane_change_duration, target_velocity,
                   vehicles, fail, actions_in, actions, acc_call, lc_call, raised,
                   state_in, state, reward>>

ApplySimple ==
    /\ pc = "apply"
    /\ variant = "SimpleLaneChangingAccelerationEnvironment"
    /\ \E acts \in SeqsUpTo(ActVals, MaxLen) : Simple_apply_rl_actions(acts)
    /\ pc' = "applied"
    /\ UNCHANGED <<variant, rl_ids, sorted_ids, lane_change_duration, target_velocity,
                   timer, vehicles, fail, state_in, state, reward>>

ApplyLaneChangeOnly ==
    /\ pc = "apply"
    /\ variant = "LaneChangeOnlyEnvironment"
    /\ \E acts \in SeqsUpTo(ActVals, MaxLen) :
           \E a \in CtrlAccVals :
               LaneChangeOnly_apply_rl_actions(acts, [i \in 1..Len(sorted_rl_ids) |-> a])
    /\ pc' = "applied"
    /\ UNCHANGED <<variant, rl_ids, sorted_ids, lane_change_duration, target_velocity,
                   timer, vehicles, fail, state_in, state, reward>>

\* the vehicles that were sent a non-zero direction
Commanded == {lc_call.ids[i] : i \in {j \in 1..Len(lc_call.ids) :
                                         j <= Len(lc_call.vals) /\ lc_call.vals[j] # 0}}

\* The simulator executes the commands: a commanded vehicle changes lanes
\* unless the target lane does not exist, and its last_lc becomes the tick.
SimStep ==
    /\ pc = "applied"
    /\ raised = "none"
    /\ \E changed \in SUBSET Commanded :
           vehicles' = [v \in 1..NumVehicles |->
                           IF v \in changed THEN [vehicles[v] EXCEPT !.last_lc = timer]
                           ELSE vehicles[v]]
    /\ pc' = "idle"
    /\ actions_in' = <<>>
    /\ actions' = <<>>
    /\ acc_call' = NoCall
    /\ lc_call' = NoCall
    /\ UNCHANGED <<variant, rl_ids, sorted_ids, lane_change_duration, target_velocity,
                   timer, fail, raised, state_in, state, reward>>

Next == BeginStep \/ ApplySimple \/ ApplyLaneChangeOnly \/ SimStep

Spec == InitControl /\ [][Next]_vars

(***************************************************************************)
(* Rewards: the real  c + sqrt(a) - sqrt(b)                                *)
(***************************************************************************)
Const(k) == [c |-> k, a |-> 0, b |-> 0]

\* c + sqrt(a) - sqrt(b) < 0, decided in integer arithmetic
IsNegative(r) ==
    IF r.c >= 0
    THEN LET R == r.b - r.a - r.c * r.c
         IN  R > 0 /\ 4 * r.c * r.c * r.a < R * R
    ELSE LET R == r.a - r.b - r.c * r.c
         IN  R < 0 \/ R * R < 4 * r.c * r.c * r.b

RECURSIVE SumSeq(_)
SumSeq(s) == IF s = <<>> THEN 0 ELSE Head(s) + SumSeq(Tail(s))

\* np.linalg.norm(x) ** 2
NormSq(x) == SumSeq([i \in 1..Len(x) |-> x[i] * x[i]])

FAIL_PENALTY == -20

\* rewards.desired_velocity(self, fail=...): the external scoring function,
\* minus the norm of (speed - target velocity) over all vehicles, and the
\* fixed penalty on a failure or a negative speed.
desired_velocity(f) ==
    IF f \/ \E v \in 1..NumVehicles : vehicles[v].speed < 0
    THEN Const(FAIL_PENALTY)
    ELSE [c |-> 0, a |-> 0,
          b |-> NormSq([i \in 1..NumVehicles |-> vehicles[ids[i]].speed - target_velocity])]

(***************************************************************************)
(* compute_reward of SimpleLaneChangingAccelerationEnvironment and of      *)
(* LaneChangeOnlyEnvironment                                               *)
(***************************************************************************)
\* for veh_id in veh_ids: if last_lc == self.timer: reward -= 1
RECURSIVE Simple_penalty_loop(_, _)
Simple_penalty_loop(rew, veh_ids) ==
    IF veh_ids = <<>> THEN rew
    ELSE Simple_penalty_loop(
             IF vehicles[Head(veh_ids)].last_lc = timer THEN [rew EXCEPT !.c = @ - 1] ELSE rew,
             Tail(veh_ids))

\* the loop run over every vehicle instead of self.rl_ids
Simple_compute_reward_all_vehicles(f) == Simple_penalty_loop(desired_velocity(f), ids)

Simple_compute_reward(f) == Simple_penalty_loop(desired_velocity(f), rl_ids)

RECURSIVE LaneChangeOnly_penalty_loop(_, _)
LaneChangeOnly_penalty_loop(rew, veh_ids) ==
    IF veh_ids = <<>> THEN rew
    ELSE LaneChangeOnly_penalty_loop(
             IF vehicles[Head(veh_ids)]["last_lc"] = timer THEN [rew EXCEPT !.c = @ - 1] ELSE rew,
             Tail(veh_ids))

LaneChangeOnly_compute_reward(f) == LaneChangeOnly_penalty_loop(desired_velocity(f), rl_ids)

\* The state compute_reward is called in: any tick, any speeds, every vehicle
\* (controllable or not) with a last lane change at some tick up to this one
\* or none, and a step that failed or not.
InitReward ==
    /\ variant \in {"SimpleLaneChangingAccelerationEnvironment", "LaneChangeOnlyEnvironment"}
    /\ rl_ids \in SubSeqs(NumVehicles)
    /\ sorted_ids = ids
    /\ lane_change_duration = 1
    /\ target_velocity \in TargetVelocities
    /\ timer \in 1..MaxTick
    /\ \E speeds \in [1..NumVehicles -> SpeedVals],
          last \in [1..NumVehicles -> {NEVER} \cup (timer - 1)..timer] :
           vehicles = [v \in 1..NumVehicles |->
                          [Vehicle0 EXCEPT !.speed = speeds[v], !.last_lc = last[v]]]
    /\ fail \in BOOLEAN
    /\ pc = "reward"
    /\ actions_in = <<>>
    /\ actions = <<>>
    /\ acc_call = NoCall
    /\ lc_call = NoCall
    /\ raised = "none"
    /\ state_in = <<>>
    /\ state = <<>>
    /\ reward = NoReward

ComputeRewardSimple ==
    /\ pc = "reward"
    /\ variant = "SimpleLaneChangingAccelerationEnvironment"
    /\ reward' = Simple_compute_reward(fail)
    /\ pc' = "rewarded"
    /\ UNCHANGED <<variant, rl_ids, sorted_ids, lane_change_duration, target_velocity,
                   timer, vehicles, fail, actions_in, actions, acc_call, lc_call, raised,
                   state_in, state>>

ComputeRewardLaneChangeOnly ==
    /\ pc = "reward"
    /\ variant = "LaneChangeOnlyEnvironment"
    /\ reward' = LaneChangeOnly_compute_reward(fail)
    /\ pc' = "rewarded"
    /\ UNCHANGED <<variant, rl_ids, sorted_ids, lane_change_duration, target_velocity,
                   timer, vehicles, fail, actions_in, actions, acc_call, lc_call, raised,
                   state_in, state>>

NextReward == ComputeRewardSimple \/ ComputeRewardLaneChangeOnly

SpecReward == InitReward /\ [][NextReward]_vars

(***************************************************************************)
(* RLOnlyLane                                                              *)
(***************************************************************************)
\* np.argsort of the absolute positions of self.ids: an order of the
\* vehicles by position; equal positions may come out in either order.
ArgSorts ==
    {p \in Perms(NumVehicles) :
        \A i, j \in 1..NumVehicles :
            i < j => vehicles[ids[p[i]]].absolute_position <= vehicles[ids[p[j]]].absolute_position}

\* one row [speed, lane, absolute_position] per vehicle of sorted_ids
RLOnlyLane_get_state(sorted_indx) ==
    [i \in 1..NumVehicles |->
        <<vehicles[ids[sorted_indx[i]]].speed,
          vehicles[ids[sorted_indx[i]]].lane,
          vehicles[ids[sorted_indx[i]]].absolute_position>>]

\* max_cost - cost returned as it is
NoClip(r) == r

\* max(r, 0)
Max0(r) == IF IsNegative(r) THEN Const(0) ELSE r

\* any(state[0] < 0) or kwargs["fail"]
RLOnlyLane_failed(st, f) == (\E j \in 1..Len(st[1]) : st[1][j] < 0) \/ f

\* lane != 0
RLOnlyLane_lane_mask(lane) == [j \in 1..Len(lane) |-> lane[j] # 0]

\* The result of compute_reward(state, action, fail=f) for a state of at
\* least one row: what it raises, what it returns, and the state array
\* afterwards (vel = state[0] is a view, so the masked assignment writes
\* into the array).
RLOnlyLane_compute_reward(st, f) ==
    IF RLOnlyLane_failed(st, f)
    THEN [raised |-> "none", reward |-> Const(FAIL_PENALTY), state |-> st]
    ELSE IF Len(st) < 2
    THEN [raised |-> "IndexError", reward |-> NoReward, state |-> st]
    ELSE LET max_cost == NumVehicles * target_velocity * target_velocity
             vel == MaskAssignZero(st[1], RLOnlyLane_lane_mask(st[2]))
             cost == NormSq([j \in 1..Len(vel) |-> vel[j] - target_velocity])
         IN  [raised |-> "none",
              reward |-> Max0([c |-> 0, a |-> max_cost, b |-> cost]),
              state |-> [st EXCEPT ![1] = vel]]

\* The state get_state and compute_reward are called in: any speeds, lanes
\* and positions of the vehicles, and a step that failed or not.
InitLane ==
    /\ variant = "RLOnlyLane"
    /\ rl_ids = ids
    /\ sorted_ids = ids
    /\ lane_change_duration = 1
    /\ target_velocity \in TargetVelocities
    /\ timer = 1
    /\ \E speeds \in [1..NumVehicles -> SpeedVals],
          lanes \in [1..NumVehicles -> LaneVals],
          poss \in [1..NumVehicles -> PosVals] :
           vehicles = [v \in 1..NumVehicles |->
                          [Vehicle0 EXCEPT !.speed = speeds[v], !.lane = lanes[v],
                                           !.absolute_position = poss[v]]]
    /\ fail \in BOOLEAN
    /\ pc = "observe"
    /\ actions_in = <<>>
    /\ actions = <<>>
    /\ acc_call = NoCall
    /\ lc_call = NoCall
    /\ raised = "none"
    /\ state_in = <<>>
    /\ state = <<>>
    /\ reward = NoReward

GetStateRLOnlyLane ==
    /\ pc = "observe"
    /\ \E sorted_indx \in ArgSorts :
           /\ state_in' = RLOnlyLane_get_state(sorted_indx)
           /\ state' = RLOnlyLane_get_state(sorted_indx)
    /\ pc' = "reward"
    /\ UNCHANGED <<variant, rl_ids, sorted_ids, lane_change_duration, target_velocity,
                   timer, vehicles, fail, actions_in, actions, acc_call, lc_call, raised,
                   reward>>

ComputeRewardRLOnlyLane ==
    /\ pc = "reward"
    /\ LET res == RLOnlyLane_compute_reward(state, fail)
       IN  /\ reward' = res.reward
           /\ raised' = res.raised
           /\ state' = res.state
    /\ pc' = "rewarded"
    /\ UNCHANGED <<variant, rl_ids, sorted_ids, lane_change_duration, target_velocity,
                   timer, vehicles, fail, actions_in, actions, acc_call, lc_call, state_in>>

NextLane == GetStateRLOnlyLane \/ ComputeRewardRLOnlyLane

SpecLane == InitLane /\ [][NextLane]_vars

(***************************************************************************)
(* Properties                                                              *)
(***************************************************************************)
IsSimple == variant = "SimpleLaneChangingAccelerationEnvironment"

Applied == pc = "applied" /\ raised = "none" /\ lc_call.called

\* the direction the policy requested for the i-th controllable vehicle
Requested(i) == IF IsSimple THEN NpRound(actions_in[2 * i]) ELSE actions_in[i]

\* current_tick - last_lane_change_tick < cooldown_duration
InCooldown(veh_id) ==
    /\ vehicles[veh_id].last_lc <= timer
    /\ timer < vehicles[veh_id].last_lc + lane_change_duration

\* the length apply_rl_actions expects of the action vector
ExpectedLen == IF IsSimple THEN 2 * Len(sorted_rl_ids) ELSE Len(sorted_rl_ids)

\* C1: in both variants, a controllable vehicle whose last lane change was
\* at tick t0 is sent direction 0 at every tick t with t0 <= t < t0 + d,
\* whatever the policy requested.
C1_CooldownForcesNoChange ==
    Applied =>
        \A i \in 1..Len(lc_call.ids) :
            InCooldown(lc_call.ids[i]) => lc_call.vals[i] = 0

\* a vehicle inside its cooldown window asked for a lane change
C1_Witness ==
    /\ Applied
    /\ \E i \in 1..Len(lc_call.ids) : InCooldown(lc_call.ids[i]) /\ Requested(i) # 0

\* C2: at tick t = t0 + d the vehicle is eligible again: the requested
\* direction is passed to apply_lane_change unfiltered.
C2_EligibleAtBoundary ==
    Applied =>
        \A i \in 1..Len(lc_call.ids) :
            timer = vehicles[lc_call.ids[i]].last_lc + lane_change_duration
                => lc_call.vals[i] = Requested(i)

\* C3: an action vector of the wrong length makes the step fail, and no
\* acceleration or lane-change command is dispatched.
C3_WrongLengthFails ==
    (pc = "applied" /\ Len(actions_in) # ExpectedLen) =>
        /\ raised # "none"
        /\ ~acc_call.called
        /\ ~lc_call.called

\* C4: for a vector of length 2N in the acceleration+direction variant,
\* both calls list the controllable vehicles once each in canonical order,
\* the i-th receives acceleration actions[2i] and, when it is not in
\* cooldown, direction round(actions[2i+1]).
C4_DecodingAlignment ==
    (pc = "applied" /\ IsSimple /\ Len(actions_in) = ExpectedLen) =>
        /\ raised = "none"
        /\ acc_call.called /\ lc_call.called
        /\ acc_call.ids = sorted_rl_ids /\ lc_call.ids = sorted_rl_ids
        /\ Len(acc_call.vals) = Len(sorted_rl_ids)
        /\ Len(lc_call.vals) = Len(sorted_rl_ids)
        /\ \A i \in 1..Len(sorted_rl_ids) :
               /\ acc_call.vals[i] = actions_in[2 * i - 1]
               /\ ~InCooldown(sorted_rl_ids[i]) => lc_call.vals[i] = NpRound(actions_in[2 * i])

\* C5: when the step failed or a vehicle reports a negative speed,
\* compute_reward returns exactly the fixed penalty.
C5_FailureOverride ==
    (pc = "rewarded" /\ raised = "none"
        /\ (fail \/ \E v \in 1..NumVehicles : vehicles[v].speed < 0))
    => reward = Const(FAIL_PENALTY)

\* C6: lane-gated velocity tracking (the reward_type 1 branch, taken when
\* the failure override does not fire) never returns a negative value.
C6_LaneGatedNonNegative ==
    (pc = "rewarded" /\ raised = "none" /\ ~RLOnlyLane_failed(state_in, fail))
    => ~IsNegative(reward)

\* the branch was taken with a cost above the maximum cost
C6_Witness ==
    /\ pc = "rewarded" /\ raised = "none" /\ ~RLOnlyLane_failed(state_in, fail)
    /\ NormSq([j \in 1..3 |-> state[1][j] - target_velocity])
           > NumVehicles * target_velocity * target_velocity
    /\ reward = Const(0)

\* the speed the claim takes for the vehicle of an observation row
GatedSpeed(row) == IF row[2] # 0 THEN 0 ELSE row[1]

\* C7: on the observation of get_state, the reward is
\* max(max_score - actual_score, 0) with the speed of exactly the vehicles
\* outside lane 0 taken as 0.
C7_LaneGating ==
    (pc = "rewarded" /\ raised = "none" /\ ~fail
        /\ \A i \in 1..Len(state_in) : state_in[i][1] >= 0)
    => reward = Max0([c |-> 0,
                      a |-> NumVehicles * target_velocity * target_velocity,
                      b |-> NormSq([i \in 1..Len(state_in) |->
                                       GatedSpeed(state_in[i]) - target_velocity])])

\* the controllable vehicles whose last lane change is at this tick
ChangedNow == {v \in Range(rl_ids) : vehicles[v].last_lc = timer}

\* C8: with no failure, the reward is the velocity-tracking score minus the
\* number of controllable vehicles whose last lane change is at the current
\* tick: 0 minus that number when every speed is the target velocity.
C8_LaneChangePenalty ==
    (pc = "rewarded" /\ ~fail) =>
        /\ reward = [desired_velocity(fail) EXCEPT !.c = @ - Cardinality(ChangedNow)]
        /\ (\A v \in 1..NumVehicles : vehicles[v].speed = target_velocity)
               => reward = Const(0 - Cardinality(ChangedNow))

\* one controllable vehicle changed at this tick, another vehicle that is
\* not controllable did too, and all speeds are at the target: reward -1
C8_Witness ==
    /\ pc = "rewarded" /\ ~fail
    /\ Cardinality(ChangedNow) = 1
    /\ \E v \in 1..NumVehicles : v \notin Range(rl_ids) /\ vehicles[v].last_lc = timer
    /\ \A v \in 1..NumVehicles : vehicles[v].speed = target_velocity
    /\ reward = Const(-1)

\* C9: every direction passed to apply_lane_change is -1, 0 or 1.
C9_DiscreteDirections ==
    Applied => \A i \in 1..Len(lc_call.vals) : lc_call.vals[i] \in {-2, 0, 2}

\* C10: apply_rl_actions of the direction-only variant leaves the caller's
\* action vector as it was.
C10_ActionsUnchanged ==
    (pc = "applied" /\ ~IsSimple) => actions = actions_in

====
